---- MODULE Spec2Model ----
(***************************************************************************)
(* Model of scripts/convert_protofile.py: convert_protofile() and the      *)
(* Proto2Dict line parser.                                                 *)
(*                                                                         *)
(* A line of text is a sequence of one-character strings.  A word (block   *)
(* name, entry name, value token) is the sub-sequence a \w+ group          *)
(* captures.  OrderedDict objects live in a heap, because self.d and the   *)
(* elements of self.parents are references to shared, mutable objects.     *)
(***************************************************************************)
EXTENDS Integers, Sequences, FiniteSets, TLC

\* ------------------------------------------------------------------ bounds
\* longest input (in lines) of the nesting specification
MaxNestLines == 6
\* longest input (in lines) of the lexical specification
MaxLexLines == 3
\* longest input (in lines) of one conversion of the two-conversion specification
MaxTwiceLines == 2
\* longest input (in lines) of the repeated-name specification
MaxDupLines == 5

\* ------------------------------------------------------ characters, lines
Last(s) == s[Len(s)]
Front(s) == SubSeq(s, 1, Len(s) - 1)
Range(s) == {s[i] : i \in DOMAIN s}

DecDigits == <<"0", "1", "2", "3", "4", "5", "6", "7", "8", "9">>
HexLower == DecDigits \o <<"a", "b", "c", "d", "e", "f">>
HexUpper == DecDigits \o <<"A", "B", "C", "D", "E", "F">>
LowerLetters ==
  {"a", "b", "c", "d", "e", "f", "g", "h", "i", "j", "k", "l", "m",
   "n", "o", "p", "q", "r", "s", "t", "u", "v", "w", "x", "y", "z"}
UpperLetters ==
  {"A", "B", "C", "D", "E", "F", "G", "H", "I", "J", "K", "L", "M",
   "N", "O", "P", "Q", "R", "S", "T", "U", "V", "W", "X", "Y", "Z"}

\* the class \s of the re module
IsSpace(c) == c \in {" ", "\t", "\n", "\r", "\f"}
\* the class \w of the re module
IsWord(c) == c \in LowerLetters \cup UpperLetters \cup Range(DecDigits) \cup {"_"}

\* the literal lit occurs in line at position i
HasAt(line, i, lit) ==
  /\ i >= 1
  /\ i + Len(lit) - 1 <= Len(line)
  /\ \A k \in 1..Len(lit) : line[i + k - 1] = lit[k]

\* position after the greedy \s* started at i
SkipSpace(line, i) ==
  CHOOSE j \in i..(Len(line) + 1) :
    /\ \A k \in i..(j - 1) : IsSpace(line[k])
    /\ (j = Len(line) + 1 \/ ~IsSpace(line[j]))

\* position after the greedy \w* started at i
SkipWord(line, i) ==
  CHOOSE j \in i..(Len(line) + 1) :
    /\ \A k \in i..(j - 1) : IsWord(line[k])
    /\ (j = Len(line) + 1 \/ ~IsWord(line[j]))

kw_message == <<"m", "e", "s", "s", "a", "g", "e">>
kw_enum == <<"e", "n", "u", "m">>

NoMatch == [ok |-> FALSE, name |-> <<>>, value |-> <<>>]

\* the pattern without its brace, '\s*(message|enum) (?P<name>\w+)'
MESSAGE_REGEX_nobrace(line) ==
  LET i == SkipSpace(line, 1)
      kw == IF HasAt(line, i, kw_message) THEN Len(kw_message)
            ELSE IF HasAt(line, i, kw_enum) THEN Len(kw_enum)
            ELSE 0
      b == i + kw + 1
      e == SkipWord(line, b)
  IN  IF /\ kw > 0
         /\ HasAt(line, i + kw, <<" ">>)
         /\ b <= Len(line)
         /\ e > b
      THEN [ok |-> TRUE, name |-> SubSeq(line, b, e - 1), value |-> <<>>]
      ELSE NoMatch

\* MESSAGE_REGEX.match(line): '\s*(message|enum) (?P<name>\w+) \{'
\* Backtracking finds no other match: a shorter \s* leaves a space where the
\* keyword must start, a shorter \w+ leaves a word character where ' ' must be.
MESSAGE_REGEX(line) ==
  LET i == SkipSpace(line, 1)
      kw == IF HasAt(line, i, kw_message) THEN Len(kw_message)
            ELSE IF HasAt(line, i, kw_enum) THEN Len(kw_enum)
            ELSE 0
      b == i + kw + 1
      e == SkipWord(line, b)
  IN  IF /\ kw > 0
         /\ HasAt(line, i + kw, <<" ">>)
         /\ b <= Len(line)
         /\ e > b
         /\ HasAt(line, e, <<" ", "{">>)
      THEN [ok |-> TRUE, name |-> SubSeq(line, b, e - 1), value |-> <<>>]
      ELSE NoMatch

\* VALUE_REGEX.match(line): '\s*(?P<name>\w+)\s*=\s*(?P<value>\w+)'
VALUE_REGEX(line) ==
  LET i == SkipSpace(line, 1)
      j == SkipWord(line, i)
      k == SkipSpace(line, j)
      m == SkipSpace(line, k + 1)
      n == SkipWord(line, m)
  IN  IF /\ j > i
         /\ HasAt(line, k, <<"=">>)
         /\ n > m
      THEN [ok |-> TRUE, name |-> SubSeq(line, i, j - 1),
            value |-> SubSeq(line, m, n - 1)]
      ELSE NoMatch

\* a pattern whose brace is optional, '\s*\}?': every line matches
END_REGEX_loose(line) == [ok |-> TRUE, name |-> <<>>, value |-> <<>>]

\* END_REGEX.match(line): '\s*\}'
END_REGEX(line) ==
  IF HasAt(line, SkipSpace(line, 1), <<"}">>)
  THEN [ok |-> TRUE, name |-> <<>>, value |-> <<>>]
  ELSE NoMatch

\* ------------------------------------------------------------ int(x, 0)
\* the interpreters the script runs under: it has no shebang and no version
\* check, and uses only constructs valid in both major versions
PyVersions == {2, 3}

ValueError == -1

DigitVal(c) ==
  IF c \in Range(HexLower) THEN (CHOOSE i \in DOMAIN HexLower : HexLower[i] = c) - 1
  ELSE IF c \in Range(HexUpper) THEN (CHOOSE i \in DOMAIN HexUpper : HexUpper[i] = c) - 1
  ELSE 99

\* the digits of a literal: every character is a digit of the base; Python 3
\* also takes single underscores between digits (and after a base prefix)
ValidBody(body, base, ver, prefixed) ==
  /\ body # <<>>
  /\ \A i \in DOMAIN body :
       IF body[i] = "_"
       THEN /\ ver = 3
            /\ i < Len(body)
            /\ body[i + 1] # "_"
            /\ (i > 1 \/ prefixed)
       ELSE DigitVal(body[i]) < base

RECURSIVE BodyVal(_, _)
BodyVal(body, base) ==
  IF body = <<>> THEN 0
  ELSE IF Last(body) = "_" THEN BodyVal(Front(body), base)
  ELSE BodyVal(Front(body), base) * base + DigitVal(Last(body))

\* int(tok, 0) for a token captured by \w+ (no sign, no blanks): the value,
\* or ValueError.  A leading 0 without a base letter is octal in Python 2 and
\* is accepted by Python 3 only when the whole literal is zero.
IntBase0(tok, ver) ==
  LET n == Len(tok)
      letter == IF n >= 2 /\ tok[1] = "0" THEN tok[2] ELSE ""
      base == IF letter \in {"x", "X"} THEN 16
              ELSE IF letter \in {"o", "O"} THEN 8
              ELSE IF letter \in {"b", "B"} THEN 2
              ELSE IF n >= 1 /\ tok[1] = "0" /\ ver = 2 THEN 8
              ELSE 10
      prefixed == letter \in {"x", "X", "o", "O", "b", "B"}
      body == IF prefixed THEN SubSeq(tok, 3, n) ELSE tok
  IN  IF ~ValidBody(body, base, ver, prefixed) THEN ValueError
      ELSE IF ~prefixed /\ ver = 3 /\ tok[1] = "0" /\ BodyVal(body, base) # 0
           THEN ValueError
      ELSE BodyVal(body, base)

\* ------------------------------------------------------------ input lines
L_msgA == kw_message \o <<" ", "A", " ", "{", "\n">>
L_msgB == <<" ", " ">> \o kw_message \o <<" ", "B", " ", "{", "\n">>
L_enumB == kw_enum \o <<" ", "B", " ", "{", "\n">>
L_X1 == <<" ", " ", "X", " ", "=", " ", "1", "\n">>
L_X2 == <<"X", "=", "2", ";", "\n">>
L_Y2 == <<"Y", " ", "=", " ", "2", "\n">>
L_X10 == <<"X", " ", "=", " ", "1", "0", "\n">>
L_Xhex == <<"X", " ", "=", " ", "0", "x", "1", "0", "\n">>
L_Xoct == <<"X", " ", "=", " ", "0", "1", "0", "\n">>
L_Xabc == <<"X", " ", "=", " ", "a", "b", "c", "\n">>
L_close == <<"}", "\n">>
L_close2 == <<" ", " ", "}", "\n">>
L_blank == <<"\n">>
L_comment == <<"/", "/", " ", "X", " ", "=", " ", "1", "\n">>
L_field == <<"i", "n", "t", " ", "x", " ", "=", " ", "1", ";", "\n">>
L_msgFoo3 == kw_message \o <<" ", "F", "o", "o", " ", "=", " ", "3", "\n">>
L_msgX == kw_message \o <<" ", "X", " ", "{", "\n">>

\* the lines the file iterator can yield in each specification
NestLines == {L_msgA, L_msgB, L_X1, L_Y2, L_close}
LexLines == {L_msgA, L_enumB, L_X1, L_X2, L_X10, L_Xhex, L_Xoct, L_Xabc,
             L_close, L_close2, L_blank, L_comment, L_field, L_msgFoo3}
TwiceLines == {L_msgA, L_Xabc, L_Y2, L_close}
DupLines == {L_msgA, L_msgX, L_X1, L_X2, L_Y2, L_close}

\* ------------------------------------------------------ OrderedDict, heap
\* an item value: an int, or a reference to an OrderedDict of the heap
IntVal(n) == [ref |-> FALSE, n |-> n]
RefVal(id) == [ref |-> TRUE, n |-> id]

HasKey(m, k) == \E i \in DOMAIN m : m[i].k = k
GetItem(m, k) == m[CHOOSE i \in DOMAIN m : m[i].k = k].v

\* a list of pairs instead of a mapping: every assignment appends
SetItem_append(m, k, v) == Append(m, [k |-> k, v |-> v])

\* OrderedDict.__setitem__: a new key goes to the end, an existing key keeps
\* its position and takes the new value
\* an existing key is deleted and inserted again: it moves to the end
SetItem_move(m, k, v) ==
  Append(SelectSeq(m, LAMBDA it : it.k # k), [k |-> k, v |-> v])

SetItem(m, k, v) ==
  IF HasKey(m, k)
  THEN [i \in DOMAIN m |-> IF m[i].k = k THEN [k |-> k, v |-> v] ELSE m[i]]
  ELSE Append(m, [k |-> k, v |-> v])

\* the nested value a reference denotes (what json.dump walks)
RECURSIVE Deref(_, _)
Deref(h, id) ==
  [i \in DOMAIN h[id] |->
     LET it == h[id][i]
     IN  IF it.v.ref
         THEN [k |-> it.k, blk |-> TRUE, n |-> 0, sub |-> Deref(h, it.v.n)]
         ELSE [k |-> it.k, blk |-> FALSE, n |-> it.v.n, sub |-> <<>>]]

\* ---------------------------------------------------------------- state
VARIABLES
  py,       \* major version of the interpreter running the script
  pc,       \* position in convert_protofile
  input,    \* the lines the file iterator has yielded so far
  heap,     \* the OrderedDict objects, by reference
  d,        \* self.d: reference to the active mapping
  parents,  \* self.parents: references to the mappings of the open ancestors
  err,      \* the exception raised, "" if none
  proto,    \* the reference returned by Proto2Dict.__call__, 0 before
  tried,    \* the matchers called for the latest line, in call order
  pops,     \* pops made by the force-close loop
  inOpen,   \* the input file handle is open
  outOpen,  \* the output file handle is open
  out,      \* the text written to the output file
  log       \* finished conversions: input and outcome of each

vars == <<py, pc, input, heap, d, parents, err, proto, tried, pops,
          inOpen, outOpen, out, log>>

\* the parser object
Self == [d |-> d, parents |-> parents, heap |-> heap, exc |-> ""]
NoSelf == [d |-> 0, parents |-> <<>>, heap |-> <<>>, exc |-> ""]
\* the reference __init__ gives the root mapping
Root == 1

\* ---------------------------------------------------------- Proto2Dict
\* __init__: a fresh root mapping and an empty stack; old is whatever an
\* earlier parser object left behind, which __init__ does not look at
Proto2Dict_init_shared(old) ==
  [d |-> Len(old.heap) + 1, parents |-> old.parents,
   heap |-> Append(old.heap, <<>>), exc |-> ""]

Proto2Dict_init(old) ==
  [d |-> Root, parents |-> <<>>, heap |-> <<(<<>>)>>, exc |-> ""]

push_message_child(self, name) ==
  LET new_level == Len(self.heap) + 1
  IN  [self EXCEPT
         !.heap = Append([@ EXCEPT ![self.d] = SetItem(@, name, RefVal(new_level))], <<>>),
         !.parents = Append(@, new_level),
         !.d = new_level]

\* the new mapping becomes active and nothing is pushed on the stack
push_message_flat(self, name) ==
  LET new_level == Len(self.heap) + 1
  IN  [self EXCEPT
         !.heap = Append([@ EXCEPT ![self.d] = SetItem(@, name, RefVal(new_level))], <<>>),
         !.d = new_level]

\* the new mapping is pushed over its parent but never stored in it
push_message_unlinked(self, name) ==
  LET new_level == Len(self.heap) + 1
  IN  [self EXCEPT
         !.heap = Append(@, <<>>),
         !.parents = Append(@, self.d),
         !.d = new_level]

\* self.d.setdefault(name, OrderedDict()): a block already stored under the
\* name is entered again
push_message_merge(self, name) ==
  IF HasKey(self.heap[self.d], name) /\ GetItem(self.heap[self.d], name).ref
  THEN [self EXCEPT
          !.parents = Append(@, self.d),
          !.d = GetItem(self.heap[self.d], name).n]
  ELSE LET new_level == Len(self.heap) + 1
       IN  [self EXCEPT
              !.heap = Append([@ EXCEPT ![self.d] = SetItem(@, name, RefVal(new_level))], <<>>),
              !.parents = Append(@, self.d),
              !.d = new_level]

push_message(self, name) ==
  LET new_level == Len(self.heap) + 1
  IN  [self EXCEPT
         !.heap = Append([@ EXCEPT ![self.d] = SetItem(@, name, RefVal(new_level))], <<>>),
         !.parents = Append(@, self.d),
         !.d = new_level]

pop_stack_guarded(self) ==
  IF self.parents = <<>> THEN self
  ELSE [self EXCEPT !.d = Last(self.parents), !.parents = Front(@)]

pop_stack_discard(self) ==
  IF self.parents = <<>> THEN [self EXCEPT !.exc = "IndexError"]
  ELSE [self EXCEPT !.parents = Front(@)]

\* list.pop() of an empty list raises IndexError
pop_stack(self) ==
  IF self.parents = <<>> THEN [self EXCEPT !.exc = "IndexError"]
  ELSE [self EXCEPT !.d = Last(self.parents), !.parents = Front(@)]

match_message(self, line) ==
  LET match == MESSAGE_REGEX(line)
  IN  IF ~match.ok THEN [self |-> self, ret |-> FALSE]
      ELSE [self |-> push_message(self, match.name), ret |-> TRUE]

\* int() raises ValueError before the item is assigned
match_value(self, line) ==
  LET match == VALUE_REGEX(line)
      v == IntBase0(match.value, py)
  IN  IF ~match.ok THEN [self |-> self, ret |-> FALSE]
      ELSE IF v = ValueError
           THEN [self |-> [self EXCEPT !.exc = "ValueError"], ret |-> FALSE]
      ELSE [self |-> [self EXCEPT !.heap[self.d] = SetItem(@, match.name, IntVal(v))],
            ret |-> TRUE]

match_end(self, line) ==
  IF END_REGEX(line).ok
  THEN LET s == pop_stack(self)
       IN  [self |-> s, ret |-> s.exc = ""]
  ELSE [self |-> self, ret |-> FALSE]

\* the loop body of __call__ with no short circuit: all three matchers run
ProcessLine_all(self, line) ==
  LET r1 == match_message(self, line)
      r2 == match_value(r1.self, line)
      r3 == match_end(r2.self, line)
  IN  IF r1.self.exc # "" THEN [self |-> r1.self, tried |-> <<"message">>]
      ELSE IF r2.self.exc # "" THEN [self |-> r2.self, tried |-> <<"message", "value">>]
      ELSE [self |-> r3.self, tried |-> <<"message", "value", "end">>]

\* the loop body of __call__: match_message(line) or match_value(line) or
\* match_end(line); an exception leaves the chain at the matcher that raised
ProcessLine(self, line) ==
  LET r1 == match_message(self, line)
      r2 == match_value(r1.self, line)
      r3 == match_end(r2.self, line)
  IN  IF r1.ret \/ r1.self.exc # "" THEN [self |-> r1.self, tried |-> <<"message">>]
      ELSE IF r2.ret \/ r2.self.exc # ""
           THEN [self |-> r2.self, tried |-> <<"message", "value">>]
      ELSE [self |-> r3.self, tried |-> <<"message", "value", "end">>]

\* __call__ as one call: the loop over the lines, the force-close loop and
\* the return; the result is the parser after it, d being the returned
\* reference unless exc is set.  (The singleton sets make TLC compute each
\* intermediate parser once.)
RECURSIVE CallLoop(_, _)
CallLoop(self, lines) ==
  IF lines = <<>> \/ self.exc # "" THEN self
  ELSE CHOOSE r \in {CallLoop(s, Tail(lines)) :
                       s \in {ProcessLine(self, Head(lines)).self}} : TRUE

RECURSIVE CallForce(_)
CallForce(self) ==
  IF self.parents = <<>> \/ self.exc # "" THEN self
  ELSE CHOOSE r \in {CallForce(s) : s \in {pop_stack(self)}} : TRUE

Call(self, lines) == CallForce(CallLoop(self, lines))

\* ------------------------------------------------------------ json.dump
RECURSIVE IntRepr(_)
IntRepr(n) ==
  IF n < 10 THEN <<DecDigits[n + 1]>>
  ELSE IntRepr(n \div 10) \o <<DecDigits[(n % 10) + 1]>>

RECURSIVE Spaces(_)
Spaces(n) == IF n = 0 THEN <<>> ELSE <<" ">> \o Spaces(n - 1)

\* json.dump(proto, pb, separators=(",", ": "), indent=2): the text written
\* for the mapping doc at nesting level lvl.  Keys are \w+ words and need no
\* escaping.
RECURSIVE JsonObj(_, _)
RECURSIVE JsonItems(_, _, _)

\* the items written last key first, as from a mapping that does not keep
\* insertion order
RECURSIVE JsonItems_unordered(_, _, _)
JsonItems_unordered(doc, i, lvl) ==
  LET it == doc[Len(doc) + 1 - i]
      val == IF it.blk THEN JsonObj(it.sub, lvl) ELSE IntRepr(it.n)
      one == <<"\n">> \o Spaces(2 * lvl) \o <<"\"">> \o it.k \o <<"\"", ":", " ">> \o val
  IN  IF i = Len(doc) THEN one
      ELSE one \o <<",">> \o JsonItems_unordered(doc, i + 1, lvl)

JsonItems(doc, i, lvl) ==
  LET it == doc[i]
      val == IF it.blk THEN JsonObj(it.sub, lvl) ELSE IntRepr(it.n)
      one == <<"\n">> \o Spaces(2 * lvl) \o <<"\"">> \o it.k \o <<"\"", ":", " ">> \o val
  IN  IF i = Len(doc) THEN one
      ELSE one \o <<",">> \o JsonItems(doc, i + 1, lvl)

JsonObj(doc, lvl) ==
  IF doc = <<>> THEN <<"{", "}">>
  ELSE <<"{">> \o JsonItems(doc, 1, lvl + 1) \o <<"\n">> \o Spaces(2 * lvl) \o <<"}">>

JsonDump(doc) == JsonObj(doc, 0)

\* ------------------------------------------------------ convert_protofile
Init ==
  /\ py \in PyVersions
  /\ pc = "start"
  /\ input = <<>>
  /\ heap = <<>>
  /\ d = 0
  /\ parents = <<>>
  /\ err = ""
  /\ proto = 0
  /\ tried = <<>>
  /\ pops = 0
  /\ inOpen = FALSE
  /\ outOpen = FALSE
  /\ out = <<>>
  /\ log = <<>>

\* with open(proto_filename) as ql2: ... Proto2Dict(ql2)
OpenInput ==
  /\ pc = "start"
  /\ LET self == Proto2Dict_init(Self)
     IN  /\ d' = self.d
         /\ parents' = self.parents
         /\ heap' = self.heap
  /\ inOpen' = TRUE
  /\ pc' = "loop"
  /\ UNCHANGED <<py, input, err, proto, tried, pops, outOpen, out, log>>

\* open(proto_filename) raises: nothing was acquired
OpenInputFails ==
  /\ pc = "start"
  /\ err' = "IOError"
  /\ pc' = "failed"
  /\ UNCHANGED <<py, input, heap, d, parents, proto, tried, pops,
                 inOpen, outOpen, out, log>>

\* one iteration of "for line in self._in": the iterator yields a line and
\* the matcher chain runs on it
ReadLine(Lines, Max) ==
  /\ pc = "loop"
  /\ Len(input) < Max
  /\ \E line \in Lines :
       \E r \in {ProcessLine(Self, line)} :
           /\ input' = Append(input, line)
           /\ tried' = r.tried
           /\ d' = r.self.d
           /\ parents' = r.self.parents
           /\ heap' = r.self.heap
           /\ err' = r.self.exc
           /\ pc' = IF r.self.exc # "" THEN "raised" ELSE "loop"
  /\ UNCHANGED <<py, proto, pops, inOpen, outOpen, out, log>>

\* the iterator is exhausted: the for loop ends
EndOfInput ==
  /\ pc = "loop"
  /\ pc' = "force"
  /\ UNCHANGED <<py, input, heap, d, parents, err, proto, tried, pops,
                 inOpen, outOpen, out, log>>

\* one iteration of "while self.parents: self.pop_stack()"
ForceClose ==
  /\ pc = "force"
  /\ parents # <<>>
  /\ LET self == pop_stack(Self)
     IN  /\ d' = self.d
         /\ parents' = self.parents
         /\ heap' = self.heap
  /\ pops' = pops + 1
  /\ UNCHANGED <<py, pc, input, err, proto, tried, inOpen, outOpen, out, log>>

\* the second with statement nested in the first: parse returns and the
\* input file stays open
Return_nested ==
  /\ pc = "force"
  /\ parents = <<>>
  /\ proto' = d
  /\ pc' = "parsed"
  /\ UNCHANGED <<py, input, heap, d, parents, err, tried, pops, inOpen, outOpen, out, log>>

\* "return self.d", and the with statement closes the input file
Return ==
  /\ pc = "force"
  /\ parents = <<>>
  /\ proto' = d
  /\ inOpen' = FALSE
  /\ pc' = "parsed"
  /\ UNCHANGED <<py, input, heap, d, parents, err, tried, pops, outOpen, out, log>>

\* a plain open() without a with statement: the exception leaves
\* convert_protofile and nothing closes the input file
Unwind_leak ==
  /\ pc = "raised"
  /\ pc' = "failed"
  /\ UNCHANGED <<py, input, heap, d, parents, err, proto, tried, pops,
                 inOpen, outOpen, out, log>>

\* an exception leaves __call__: the with statement closes the input file
\* and the exception leaves convert_protofile
Unwind ==
  /\ pc = "raised"
  /\ inOpen' = FALSE
  /\ pc' = "failed"
  /\ UNCHANGED <<py, input, heap, d, parents, err, proto, tried, pops,
                 outOpen, out, log>>

\* with codecs.open(proto_json_filename, "w") as pb: mode "w" truncates
OpenOutput ==
  /\ pc = "parsed"
  /\ outOpen' = TRUE
  /\ out' = <<>>
  /\ pc' = "dump"
  /\ UNCHANGED <<py, input, heap, d, parents, err, proto, tried, pops, inOpen, log>>

OpenOutputFails ==
  /\ pc = "parsed"
  /\ err' = "IOError"
  /\ pc' = "failed"
  /\ UNCHANGED <<py, input, heap, d, parents, proto, tried, pops,
                 inOpen, outOpen, out, log>>

\* json.dump(proto, pb, ...)
Dump ==
  /\ pc = "dump"
  /\ out' = JsonDump(Deref(heap, proto))
  /\ pc' = "written"
  /\ UNCHANGED <<py, input, heap, d, parents, err, proto, tried, pops,
                 inOpen, outOpen, log>>

\* a write of json.dump raises (disk full, device error): part of the text
\* may have reached the file
DumpFails ==
  /\ pc = "dump"
  /\ \E n \in {0, Len(JsonDump(Deref(heap, proto))) \div 2} :
       out' = SubSeq(JsonDump(Deref(heap, proto)), 1, n)
  /\ err' = "IOError"
  /\ pc' = "raised_out"
  /\ UNCHANGED <<py, input, heap, d, parents, proto, tried, pops,
                 inOpen, outOpen, log>>

\* the exception leaves the second with statement, which closes the output
\* file, and then convert_protofile
UnwindOutput ==
  /\ pc = "raised_out"
  /\ outOpen' = FALSE
  /\ pc' = "failed"
  /\ UNCHANGED <<py, input, heap, d, parents, err, proto, tried, pops,
                 inOpen, out, log>>

\* the with statement closes the output file; convert_protofile returns
CloseOutput ==
  /\ pc = "written"
  /\ outOpen' = FALSE
  /\ pc' = "done"
  /\ UNCHANGED <<py, input, heap, d, parents, err, proto, tried, pops,
                 inOpen, out, log>>

\* what a finished conversion produced
Outcome ==
  [status |-> pc, err |-> err, written |-> IF pc = "done" THEN out ELSE <<>>]

\* convert_protofile is called again (same process, the objects of the call
\* before are garbage): the finished conversion is logged
NextConversion ==
  /\ pc \in {"done", "failed"}
  /\ log = <<>>
  /\ log' = Append(log, [in |-> input, res |-> Outcome])
  /\ pc' = "start"
  /\ input' = <<>>
  /\ err' = ""
  /\ proto' = 0
  /\ tried' = <<>>
  /\ pops' = 0
  /\ UNCHANGED <<py, heap, d, parents, inOpen, outOpen, out>>

Convert(Lines, Max) ==
  \/ OpenInput
  \/ OpenInputFails
  \/ ReadLine(Lines, Max)
  \/ EndOfInput
  \/ ForceClose
  \/ Return
  \/ Unwind
  \/ OpenOutput
  \/ OpenOutputFails
  \/ Dump
  \/ DumpFails
  \/ UnwindOutput
  \/ CloseOutput

\* one conversion, inputs that nest blocks
Next == Convert(NestLines, MaxNestLines)
Spec == Init /\ [][Next]_vars

\* one conversion, inputs that exercise the three patterns and int()
NextLex == Convert(LexLines, MaxLexLines)
SpecLex == Init /\ [][NextLex]_vars

\* two conversions in a row
NextTwice == Convert(TwiceLines, MaxTwiceLines) \/ NextConversion
SpecTwice == Init /\ [][NextTwice]_vars

\* one conversion, inputs that use a name again in the same block
NextDup == Convert(DupLines, MaxDupLines)
SpecDup == Init /\ [][NextDup]_vars

\* ------------------------------------------------ vocabulary of the claims
\* what a line is, by the patterns in their priority order
KindOf(line) ==
  IF MESSAGE_REGEX(line).ok THEN "open"
  ELSE IF VALUE_REGEX(line).ok THEN "value"
  ELSE IF END_REGEX(line).ok THEN "close"
  ELSE "ignored"

\* the same, tabulated for the lines of the specifications
KindTable == [l \in NestLines \cup LexLines \cup TwiceLines \cup DupLines |-> KindOf(l)]
Kind(line) == KindTable[line]

CountKind(lines, kind) == Cardinality({i \in DOMAIN lines : Kind(lines[i]) = kind})

\* the names of the blocks opened and not yet closed, outermost first: p is
\* the path before lines.  (The singleton set makes TLC compute each path once.)
RECURSIVE OpenPathFrom(_, _)
OpenPathFrom(p, lines) ==
  IF lines = <<>> THEN p
  ELSE LET l == Head(lines)
       IN  CHOOSE r \in {OpenPathFrom(q, Tail(lines)) :
                           q \in {IF Kind(l) = "open" THEN Append(p, MESSAGE_REGEX(l).name)
                                  ELSE IF Kind(l) = "close" /\ p # <<>> THEN Front(p)
                                  ELSE p}} : TRUE

OpenPath(lines) == OpenPathFrom(<<>>, lines)

\* no prefix has more closes than opens, and the totals are equal
Balanced(lines) ==
  /\ \A n \in 0..Len(lines) :
       CountKind(SubSeq(lines, 1, n), "close") <= CountKind(SubSeq(lines, 1, n), "open")
  /\ CountKind(lines, "close") = CountKind(lines, "open")

IntEntry(k, n) == [k |-> k, blk |-> FALSE, n |-> n, sub |-> <<>>]
BlkEntry(k, sub) == [k |-> k, blk |-> TRUE, n |-> 0, sub |-> sub]

\* the block reached from doc by following the names of path
RECURSIVE HasPath(_, _)
HasPath(doc, path) ==
  \/ path = <<>>
  \/ \E i \in DOMAIN doc :
       doc[i].k = Head(path) /\ doc[i].blk /\ HasPath(doc[i].sub, Tail(path))

RECURSIVE SubDoc(_, _)
SubDoc(doc, path) ==
  IF path = <<>> THEN doc
  ELSE SubDoc(doc[CHOOSE i \in DOMAIN doc : doc[i].k = Head(path)].sub, Tail(path))

\* the document under the root mapping
RootDoc == Deref(heap, Root)
\* parse has returned
Returned == pc \in {"parsed", "dump", "written", "done"}
\* the parser has just handled the line Last(input) without raising
Handled == pc = "loop" /\ input # <<>>
\* this step reads one line
Reads == pc = "loop" /\ Len(input') = Len(input) + 1

\* what a conversion of these lines by a new process gives, I/O errors aside
FreshOutcome(lines) ==
  LET r == Call(Proto2Dict_init(NoSelf), lines)
  IN  IF r.exc # ""
      THEN [status |-> "failed", err |-> r.exc, written |-> <<>>]
      ELSE [status |-> "done", err |-> "", written |-> JsonDump(Deref(r.heap, r.d))]

Closes(n) == [i \in 1..n |-> L_close]

\* --------------------------------------------------------------- claims
NestExample == <<L_msgA, L_msgB, L_X1, L_close, L_Y2, L_close>>
NestExampleDoc ==
  <<BlkEntry(<<"A">>, <<BlkEntry(<<"B">>, <<IntEntry(<<"X">>, 1)>>),
                        IntEntry(<<"Y">>, 2)>>)>>

\* C1: after a value line is handled without error, its entry is in the
\* mapping of the innermost block opened and not yet closed (the root if
\* none), reached from the root by the names of the open blocks; and the
\* six-line example returns {"A": {"B": {"X": 1}, "Y": 2}}, B before Y.
C1_Nesting ==
  /\ (Handled /\ Kind(Last(input)) = "value") =>
       \A path \in {OpenPath(input)} :
         /\ HasPath(RootDoc, path)
         /\ \E i \in DOMAIN SubDoc(RootDoc, path) :
              SubDoc(RootDoc, path)[i] =
                IntEntry(VALUE_REGEX(Last(input)).name,
                         IntBase0(VALUE_REGEX(Last(input)).value, py))
  /\ (Returned /\ input = NestExample) => Deref(heap, proto) = NestExampleDoc

C1_Witness ==
  pc = "done" /\ input = NestExample /\ Deref(heap, proto) = NestExampleDoc

\* C2: when the lines run out with k >= 1 blocks open, the force-close loop
\* pops k times, the stack is empty and the root is returned; the returned
\* document holds every still-open block under its name and is the document
\* the same lines followed by the k missing close lines give.
C2_ForceClose ==
  Returned =>
    \A path \in {OpenPath(input)} :
      path # <<>> =>
        /\ parents = <<>>
        /\ pops = Len(path)
        /\ proto = Root
        /\ HasPath(Deref(heap, proto), path)
        /\ pc = "parsed" =>
             \A full \in {Call(Proto2Dict_init(NoSelf), input \o Closes(Len(path)))} :
               Deref(heap, proto) = Deref(full.heap, full.d)

C2_Witness ==
  /\ pc = "done"
  /\ input = <<L_msgA, L_enumB, L_X1>>
  /\ pops = 2
  /\ Deref(heap, proto) =
       <<BlkEntry(<<"A">>, <<BlkEntry(<<"B">>, <<IntEntry(<<"X">>, 1)>>)>>)>>

\* C3: parse never raises: whatever the lines, no exception leaves the
\* matchers.
C3_NeverRaises == err \notin {"IndexError", "ValueError"}

\* C4: a close line handled while the stack is empty raises IndexError and
\* changes nothing; once IndexError is raised parse returns no document.
C4_StrayClose ==
  /\ [][(Reads /\ Kind(Last(input')) = "close" /\ parents = <<>>) =>
          (/\ pc' = "raised"
           /\ err' = "IndexError"
           /\ UNCHANGED <<heap, d, parents, proto>>)]_vars
  /\ [](err = "IndexError" => (proto = 0 /\ pc \in {"raised", "failed"} /\ out = <<>>))

C4_Witness ==
  /\ pc = "failed"
  /\ err = "IndexError"
  /\ input = <<L_msgA, L_close, L_close2>>

\* C5: a value line whose token is 10, 0x10 or 010 is handled without error
\* and leaves 10, 16 or 8 under its name in the active mapping.
C5_Numeric ==
  \A c \in {<<L_X10, 10>>, <<L_Xhex, 16>>, <<L_Xoct, 8>>} :
    (input # <<>> /\ Last(input) = c[1] /\ pc \in {"loop", "raised"}) =>
      /\ pc = "loop"
      /\ HasKey(heap[d], <<"X">>)
      /\ GetItem(heap[d], <<"X">>) = IntVal(c[2])

\* C6: handling a value line whose token int() accepts, while its name is
\* already a key of the active mapping, raises nothing, keeps the keys of
\* the mapping and their order, and leaves the line's value under the name;
\* after any value line the name is a key of the active mapping exactly
\* once, with the value of that line.
C6_LastWriteWins ==
  /\ [][(/\ Reads
         /\ Kind(Last(input')) = "value"
         /\ HasKey(heap[d], VALUE_REGEX(Last(input')).name)
         /\ IntBase0(VALUE_REGEX(Last(input')).value, py) # ValueError) =>
          (/\ pc' = "loop"
           /\ err' = ""
           /\ d' = d
           /\ [i \in DOMAIN heap'[d] |-> heap'[d][i].k] = [i \in DOMAIN heap[d] |-> heap[d][i].k]
           /\ GetItem(heap'[d], VALUE_REGEX(Last(input')).name) =
                IntVal(IntBase0(VALUE_REGEX(Last(input')).value, py)))]_vars
  /\ []((Handled /\ Kind(Last(input)) = "value") =>
          LET m == VALUE_REGEX(Last(input))
          IN  /\ Cardinality({i \in DOMAIN heap[d] : heap[d][i].k = m.name}) = 1
              /\ GetItem(heap[d], m.name) = IntVal(IntBase0(m.value, py)))
  /\ []((Returned /\ input = <<L_X1, L_X2>>) =>
          Deref(heap, proto) = <<IntEntry(<<"X">>, 2)>>)

C6_Witness ==
  /\ pc = "done"
  /\ input = <<L_msgA, L_X1, L_X2>>
  /\ Deref(heap, proto) = <<BlkEntry(<<"A">>, <<IntEntry(<<"X">>, 2)>>)>>

\* the lines of the input that match a pattern
RECURSIVE StripIgnored(_)
StripIgnored(lines) ==
  IF lines = <<>> THEN <<>>
  ELSE IF Kind(Head(lines)) = "ignored" \/ Head(lines) \in {L_blank, L_comment, L_field}
       THEN StripIgnored(Tail(lines))
  ELSE <<Head(lines)>> \o StripIgnored(Tail(lines))

\* C7: handling a line that matches no pattern (a blank line, a comment
\* line, other text) changes nothing of the parser, and a finished
\* conversion is the conversion of the input without such lines.
C7_IgnoredLines ==
  /\ [][(/\ Reads
         /\ \/ Kind(Last(input')) = "ignored"
            \/ Last(input') \in {L_blank, L_comment, L_field}) =>
          UNCHANGED <<heap, d, parents, err, pc, proto, out>>]_vars
  /\ []((pc \in {"done", "failed"} /\ err # "IOError") =>
          Outcome = FreshOutcome(StripIgnored(input)))

C7_Witness ==
  /\ pc = "done"
  /\ input = <<L_msgA, L_comment, L_X1>>
  /\ Deref(heap, proto) = <<BlkEntry(<<"A">>, <<IntEntry(<<"X">>, 1)>>)>>

\* C8: for every line the matchers are called in the order block-open,
\* value, block-close, and a matcher is called only if the pattern of every
\* matcher before it failed to match the line; the line makes at most one of
\* a push, an insertion and a pop.
C8_Priority ==
  /\ []((input # <<>> /\ pc \in {"loop", "raised"}) =>
          LET l == Last(input)
          IN  /\ tried \in {<<"message">>, <<"message", "value">>,
                            <<"message", "value", "end">>}
              /\ Len(tried) >= 2 => ~MESSAGE_REGEX(l).ok
              /\ Len(tried) >= 3 => ~VALUE_REGEX(l).ok
              /\ Len(tried) = 1 => MESSAGE_REGEX(l).ok
              /\ Len(tried) = 2 => VALUE_REGEX(l).ok)
  /\ [][Reads =>
          LET push == IF Len(heap') > Len(heap) THEN 1 ELSE 0
              ins == IF \E i \in DOMAIN heap : heap'[i] # heap[i] /\ Len(heap') = Len(heap)
                     THEN 1 ELSE 0
              pop == IF Len(parents') < Len(parents) THEN 1 ELSE 0
          IN  /\ push + ins + pop <= 1
              /\ push = 1 => Kind(Last(input')) = "open"
              /\ ins = 1 => Kind(Last(input')) = "value"
              /\ pop = 1 => Kind(Last(input')) = "close"]_vars

C8_Witness ==
  /\ pc = "loop"
  /\ input = <<L_enumB, L_X10, L_close2>>
  /\ tried = <<"message", "value", "end">>
  /\ parents = <<>>

\* parse has ended: it returned, or an exception left it
ParseEnded == Returned \/ err \in {"IndexError", "ValueError"}

\* C9: for every balanced input (the lines read, followed by the close lines
\* left unread when an exception ended the loop), at the end of parse the
\* closes matched are as many as the opens of the input, the stack is empty
\* and the force-close loop has popped nothing.
C9_Balanced ==
  \A n \in 0..MaxLexLines :
    (/\ ParseEnded
     /\ n > 0 => ~Returned
     /\ Balanced(input \o Closes(n))) =>
      /\ CountKind(input, "close") = CountKind(input \o Closes(n), "open")
      /\ parents = <<>>
      /\ pops = 0

\* C10: the outcome of a conversion (failure and exception, or the text
\* written) is the outcome a new process gives for the same lines, whatever
\* conversion ran before it; two conversions of the same lines in a row have
\* the same outcome.  Failures to open a file are the environment's.
C10_Idempotent ==
  /\ (pc \in {"done", "failed"} /\ err # "IOError") => Outcome = FreshOutcome(input)
  /\ (/\ pc \in {"done", "failed"}
      /\ log # <<>>
      /\ log[1].in = input
      /\ err # "IOError"
      /\ log[1].res.err # "IOError") => log[1].res = Outcome

C10_Witness ==
  /\ pc = "done"
  /\ log # <<>>
  /\ log[1].in = <<L_msgA, L_Y2>>
  /\ input = <<L_msgA, L_Y2>>
  /\ log[1].res.written = out
  /\ out # <<>>

\* C11: when convert_protofile has ended, by returning or by an exception
\* (opening a file, parsing or writing failed), neither file handle is open;
\* each handle is open only inside its own with statement.
C11_Released ==
  /\ pc \in {"done", "failed"} => (~inOpen /\ ~outOpen)
  /\ inOpen => pc \in {"loop", "force", "raised"}
  /\ outOpen => pc \in {"dump", "written", "raised_out"}

C11_Witness ==
  /\ pc = "failed"
  /\ err = "IndexError"
  /\ input = <<L_msgA, L_close, L_close>>
  /\ ~inOpen
  /\ ~outOpen

\* C12 as claimed: handling the line "message Foo = 3" pushes a new block
\* named Foo: the stack grows by the mapping that was active, which now
\* holds Foo, and the new empty mapping is active.
C12_FooOpens ==
  (Handled /\ Last(input) = L_msgFoo3) =>
    /\ tried = <<"message">>
    /\ parents # <<>>
    /\ HasKey(heap[Last(parents)], <<"F", "o", "o">>)
    /\ heap[d] = <<>>

\* C12 as amended: the line "message Foo = 3" matches none of the three
\* patterns (block-open wants " {" after the name, value wants "=" after the
\* first word): all three matchers are called and the parser is unchanged.
C12_FooIgnored ==
  /\ [][(Reads /\ Last(input') = L_msgFoo3) =>
          (/\ tried' = <<"message", "value", "end">>
           /\ UNCHANGED <<heap, d, parents, err, pc, proto>>)]_vars
  /\ []((Returned /\ input = <<L_msgFoo3, L_X1>>) =>
          Deref(heap, proto) = <<IntEntry(<<"X">>, 1)>>)

C12_Witness ==
  /\ pc = "done"
  /\ input = <<L_msgFoo3, L_X1>>
  /\ Deref(heap, proto) = <<IntEntry(<<"X">>, 1)>>

\* ------------------------------------------ a generic JSON deserializer
\* (json.load with an order-preserving object hook), for the texts made of
\* objects, strings without escapes and unsigned integers.  A result is
\* [ok, blk, n, sub, p]: an integer n or an object sub, and the position p
\* after it.  (The singleton sets make TLC compute each part once.)
JsonFail == [ok |-> FALSE, blk |-> FALSE, n |-> 0, sub |-> <<>>, p |-> 0]
JsonAt(t, p) == IF p \in DOMAIN t THEN t[p] ELSE ""

SkipJsonWs(t, p) ==
  CHOOSE j \in p..(Len(t) + 1) :
    /\ \A k \in p..(j - 1) : t[k] \in {" ", "\n", "\t", "\r"}
    /\ JsonAt(t, j) \notin {" ", "\n", "\t", "\r"}

\* a string at p: the characters between the quotes and the position after
JsonString(t, p) ==
  IF JsonAt(t, p) # "\"" \/ ~\E j \in (p + 1)..Len(t) : t[j] = "\""
  THEN [ok |-> FALSE, s |-> <<>>, p |-> 0]
  ELSE CHOOSE r \in
         {IF \E k \in (p + 1)..(j - 1) : t[k] = "\\"
          THEN [ok |-> FALSE, s |-> <<>>, p |-> 0]
          ELSE [ok |-> TRUE, s |-> SubSeq(t, p + 1, j - 1), p |-> j + 1] :
            j \in {CHOOSE j \in (p + 1)..Len(t) :
                     t[j] = "\"" /\ \A k \in (p + 1)..(j - 1) : t[k] # "\""}} : TRUE

\* an unsigned integer at p: no leading zero unless it is 0
JsonNumber(t, p) ==
  CHOOSE r \in
    {IF j = p \/ (j > p + 1 /\ t[p] = "0") THEN JsonFail
     ELSE [ok |-> TRUE, blk |-> FALSE, n |-> BodyVal(SubSeq(t, p, j - 1), 10),
           sub |-> <<>>, p |-> j] :
       j \in {CHOOSE j \in p..(Len(t) + 1) :
                /\ \A k \in p..(j - 1) : t[k] \in Range(DecDigits)
                /\ JsonAt(t, j) \notin Range(DecDigits)}} : TRUE

\* the mapping with key k set: a repeated key keeps its place and takes the
\* later value
JsonPut(doc, k, v) ==
  LET e == [k |-> k, blk |-> v.blk, n |-> v.n, sub |-> v.sub]
  IN  IF \E i \in DOMAIN doc : doc[i].k = k
      THEN [i \in DOMAIN doc |-> IF doc[i].k = k THEN e ELSE doc[i]]
      ELSE Append(doc, e)

RECURSIVE JsonValue(_, _)
RECURSIVE JsonMembers(_, _, _)

\* the members of an object from the key at p on, acc being those before
JsonMembers(t, p, acc) ==
  CHOOSE r \in UNION
    {{IF ~(k.ok /\ v.ok) THEN JsonFail
      ELSE CHOOSE r3 \in
             {IF JsonAt(t, e) = ","
              THEN JsonMembers(t, SkipJsonWs(t, e + 1), a)
              ELSE IF JsonAt(t, e) = "}"
              THEN [ok |-> TRUE, blk |-> TRUE, n |-> 0, sub |-> a, p |-> e + 1]
              ELSE JsonFail :
                e \in {SkipJsonWs(t, v.p)}, a \in {JsonPut(acc, k.s, v)}} : TRUE :
        v \in {IF k.ok /\ JsonAt(t, SkipJsonWs(t, k.p)) = ":"
               THEN JsonValue(t, SkipJsonWs(t, SkipJsonWs(t, k.p) + 1))
               ELSE JsonFail}} :
       k \in {JsonString(t, p)}} : TRUE

\* the value at p: an object or a number
JsonValue(t, p) ==
  IF JsonAt(t, p) = "{"
  THEN CHOOSE r \in
         {IF JsonAt(t, q) = "}"
          THEN [ok |-> TRUE, blk |-> TRUE, n |-> 0, sub |-> <<>>, p |-> q + 1]
          ELSE JsonMembers(t, q, <<>>) : q \in {SkipJsonWs(t, p + 1)}} : TRUE
  ELSE JsonNumber(t, p)

\* the whole text is one value, blanks around it allowed
JsonLoad(t) ==
  CHOOSE r \in
    {IF v.ok /\ SkipJsonWs(t, v.p) = Len(t) + 1 THEN v ELSE JsonFail :
       v \in {JsonValue(t, SkipJsonWs(t, 1))}} : TRUE

\* C13: the text a conversion writes, read back by a generic deserializer
\* that keeps the order of the members, is the document parse returned: the
\* same nesting, the same keys in the same order, the same integers.
C13_RoundTrip ==
  pc = "done" =>
    \A back \in {JsonLoad(out)} :
      /\ back.ok
      /\ back.blk
      /\ back.sub = Deref(heap, proto)

C13_Witness ==
  /\ pc = "done"
  /\ input = <<L_msgA, L_msgB, L_X1, L_close, L_Y2>>
  /\ JsonLoad(out).sub = NestExampleDoc

\* what a line of this kind adds to the depth of the stack
DepthStep(kind) == IF kind = "open" THEN 1 ELSE IF kind = "close" THEN -1 ELSE 0

\* C14: a line handled without an exception changes the depth of
\* self.parents by +1 if it is a block-open, by -1 if it is a block-close and
\* not at all if it is a value or an ignored line; so while the loop runs the
\* depth is the number of block-opens read minus the number of block-closes
\* read, and it is never negative.
C14_Depth ==
  /\ [][(Reads /\ err' = "") =>
          Len(parents') = Len(parents) + DepthStep(Kind(Last(input')))]_vars
  /\ [](pc = "loop" =>
          /\ Len(parents) = CountKind(input, "open") - CountKind(input, "close")
          /\ Len(parents) >= 0)

C14_Witness ==
  /\ pc = "loop"
  /\ input = <<L_msgA, L_enumB, L_close>>
  /\ Len(parents) = 1

\* mapping id holds a reference to mapping child as the value of a key
Holds(id, child) == \E j \in DOMAIN heap[id] : heap[id][j].v = RefVal(child)

\* C15: while the parser runs, the bottom of self.parents is the root
\* mapping (self.d is the root when the stack is empty), every mapping on the
\* stack holds the one above it as the value of one of its keys, and the top
\* of the stack holds self.d; so the mapping __call__ returns is the root.
C15_RootChain ==
  /\ pc \in {"loop", "force"} =>
       /\ (IF parents = <<>> THEN d ELSE parents[1]) = Root
       /\ \A i \in 1..(Len(parents) - 1) : Holds(parents[i], parents[i + 1])
       /\ parents # <<>> => Holds(Last(parents), d)
  /\ Returned => proto = Root

C15_Witness ==
  /\ pc = "parsed"
  /\ input = <<L_msgA, L_msgB, L_X1>>
  /\ pops = 2
  /\ proto = Root

\* C16: the output file is opened only when parse has returned and the
\* input file is closed, so the two handles are never open together; and as
\* long as a conversion has no parsed document (opening the input failed, or
\* parse raised) the output file is neither opened nor written nor truncated:
\* it keeps whatever an earlier conversion left in it.
C16_OutputAfterParse ==
  /\ [](~(inOpen /\ outOpen))
  /\ [][(outOpen' /\ ~outOpen) => (pc = "parsed" /\ proto # 0 /\ ~inOpen)]_vars
  /\ [][(proto = 0 \/ inOpen) => UNCHANGED <<out, outOpen>>]_vars
  /\ []((pc = "failed" /\ proto = 0) => ~outOpen)

C16_Witness ==
  /\ pc = "failed"
  /\ err = "ValueError"
  /\ proto = 0
  /\ log # <<>>
  /\ log[1].res.status = "done"
  /\ out # <<>>
  /\ out = log[1].res.written

\* the mappings reachable from mapping id through references
RECURSIVE ReachFrom(_, _)
ReachFrom(h, id) ==
  {id} \cup UNION {ReachFrom(h, h[id][j].v.n) : j \in {j \in DOMAIN h[id] : h[id][j].v.ref}}

\* this step reads a block-open line whose name is a key of the active mapping
Reopens == Reads /\ Kind(Last(input')) = "open"
                 /\ HasKey(heap[d], MESSAGE_REGEX(Last(input')).name)

\* C17: a block-open line whose name is already a key of the active mapping
\* (bound to a value or to an earlier block) rebinds the key to a new, empty
\* mapping, which becomes active; the mapping the key was bound to is no
\* longer part of the document, and no later step brings a dropped mapping
\* back.  So `message A {`, `X = 1`, `}`, `message A {`, `Y = 2` gives
\* {"A": {"Y": 2}}, and `X = 1`, `message X {`, `Y = 2` gives {"X": {"Y": 2}}.
C17_Replaces ==
  /\ [][Reopens =>
          \A name \in {MESSAGE_REGEX(Last(input')).name} :
            /\ d' \notin DOMAIN heap
            /\ heap'[d'] = <<>>
            /\ GetItem(heap'[d], name) = RefVal(d')
            /\ GetItem(heap[d], name).ref =>
                 GetItem(heap[d], name).n \notin ReachFrom(heap', Root)]_vars
  /\ [][(pc \in {"loop", "force"}) =>
          (ReachFrom(heap', Root) \cap DOMAIN heap) \subseteq ReachFrom(heap, Root)]_vars
  /\ []((Returned /\ input = <<L_msgA, L_X1, L_close, L_msgA, L_Y2>>) =>
          Deref(heap, proto) = <<BlkEntry(<<"A">>, <<IntEntry(<<"Y">>, 2)>>)>>)
  /\ []((Returned /\ input = <<L_X1, L_msgX, L_Y2>>) =>
          Deref(heap, proto) = <<BlkEntry(<<"X">>, <<IntEntry(<<"Y">>, 2)>>)>>)

C17_Witness ==
  /\ pc = "done"
  /\ input = <<L_msgA, L_X1, L_close, L_msgA, L_Y2>>
  /\ Deref(heap, proto) = <<BlkEntry(<<"A">>, <<IntEntry(<<"Y">>, 2)>>)>>
  /\ Len(heap) = 3

\* the keys of a mapping, in its order
Keys(m) == [i \in DOMAIN m |-> m[i].k]
IsPrefix(a, b) == Len(a) <= Len(b) /\ SubSeq(b, 1, Len(a)) = a

\* C18: no step moves a key: the keys a mapping has keep their positions,
\* and a new key goes to the end.  Assigning a value to a name the active
\* mapping already has changes the value at the name's position and nothing
\* else.  So the key order of each mapping of the returned document is the
\* order of first insertion: `X = 1`, `Y = 2`, `X=2;` gives {"X": 2, "Y": 2}
\* and `X = 1`, `Y = 2`, `message X {` gives {"X": {}, "Y": 2}.
C18_KeyOrder ==
  /\ [][(pc \in {"loop", "force"}) =>
          \A id \in DOMAIN heap : IsPrefix(Keys(heap[id]), Keys(heap'[id]))]_vars
  /\ [][(Reads /\ err' = "" /\ Kind(Last(input')) = "value"
               /\ HasKey(heap[d], VALUE_REGEX(Last(input')).name)) =>
          \A name \in {VALUE_REGEX(Last(input')).name} :
            /\ Keys(heap'[d]) = Keys(heap[d])
            /\ \A i \in DOMAIN heap[d] :
                 heap'[d][i] = IF heap[d][i].k = name
                               THEN [k |-> name,
                                     v |-> IntVal(IntBase0(VALUE_REGEX(Last(input')).value, py))]
                               ELSE heap[d][i]]_vars
  /\ []((Returned /\ input = <<L_X1, L_Y2, L_X2>>) =>
          Deref(heap, proto) = <<IntEntry(<<"X">>, 2), IntEntry(<<"Y">>, 2)>>)
  /\ []((Returned /\ input = <<L_X1, L_Y2, L_msgX>>) =>
          Deref(heap, proto) = <<BlkEntry(<<"X">>, <<>>), IntEntry(<<"Y">>, 2)>>)

C18_Witness ==
  /\ pc = "done"
  /\ input = <<L_X1, L_Y2, L_X2>>
  /\ Deref(heap, proto) = <<IntEntry(<<"X">>, 2), IntEntry(<<"Y">>, 2)>>

====
